---- MODULE Spec2Model ----
(***************************************************************************)
(* Model of the enrichment pass of src/main.rs: parse_tree_extra_info      *)
(* (the per-node closure parse_func) and inorder_traverse_mut.             *)
(*                                                                         *)
(* A Rust String is modelled as a sequence of one-character strings, so    *)
(* that split, trim and filter are computed as the code computes them.     *)
(* A node name is only ever compared for equality (the match of line 82),  *)
(* so names are plain TLA+ strings.  A panic is recorded as a record       *)
(* [msg, name, text]; unwinding ends the pass (status = "panicked").       *)
(***************************************************************************)
EXTENDS Integers, Sequences, FiniteSets, TLC

VARIABLES
    nnodes,      \* number of nodes of the tree; the root is node 1
    children,    \* Node.children: node -> sequence of child nodes
    name,        \* Node.name
    extra_info,  \* Node.extra_info
    attr,        \* Node.attr
    stack,       \* call stack of inorder_traverse_mut: frames [node, pc, i]
    status,      \* "running", "done" (returned normally) or "panicked"
    panic,       \* the panic payload that ended the pass, NoPanic otherwise
    visited      \* history: the nodes func was called on, in call order

vars == <<nnodes, children, name, extra_info, attr, stack, status, panic, visited>>

-----------------------------------------------------------------------------
(* Bounds *)

MaxNodes == 4
MaxLines == 3

-----------------------------------------------------------------------------
(* String literals of the source, as character sequences *)

INNER == <<"I", "N", "N", "E", "R">>
MARK == <<"M", "A", "R", "K">>
INFOSEPARATOR ==
    <<"[", "I", "N", "F", "O", "S", "E", "P", "A", "R", "A", "T", "O", "R", "]">>
NEWLINE == <<"\n">>
EQUALS == <<"=">>
DOT == <<".">>
EmptyStr == << >>

-----------------------------------------------------------------------------
(* str library functions used by parse_func *)

SetMin(S) == CHOOSE x \in S : \A y \in S : x <= y
SetMax(S) == CHOOSE x \in S : \A y \in S : x >= y

\* char::is_whitespace, on the characters the inputs are built from
IsWhitespace(c) == c \in {" ", "\n", "\t", "\r"}

\* str::trim: both ends stripped of whitespace
Trim(s) ==
    LET keep == {i \in 1..Len(s) : ~IsWhitespace(s[i])}
    IN  IF keep = {} THEN EmptyStr ELSE SubSeq(s, SetMin(keep), SetMax(keep))

\* str::split(pat).collect(): the pieces between the non-overlapping matches
\* of pat, found left to right; always at least one piece
RECURSIVE Split(_, _)
Split(s, pat) ==
    LET hits == {i \in 1..(Len(s) - Len(pat) + 1) :
                    SubSeq(s, i, i + Len(pat) - 1) = pat}
    IN  IF hits = {} THEN <<s>>
        ELSE LET i == SetMin(hits)
             IN  <<SubSeq(s, 1, i - 1)>>
                 \o Split(SubSeq(s, i + Len(pat), Len(s)), pat)

\* .filter(|s| !s.is_empty())
NonEmpty(pieces) == SelectSeq(pieces, LAMBDA p : Len(p) > 0)

\* .map(|s| s.trim())
TrimAll(pieces) == [i \in 1..Len(pieces) |-> Trim(pieces[i])]

\* &v[1..]
Tail1(v) == SubSeq(v, 2, Len(v))

-----------------------------------------------------------------------------
(* The typed operator model *)

None == [tag |-> "None"]
Attribute(t, a) == [table_name |-> t, attr_name |-> a]
Condition(l, r) == [left_attr |-> l, right_attr |-> r]
OpJoin(jt, eqs) == [tag |-> "Join", join_type |-> jt, equalizers |-> eqs]
OpScan(t, as) == [tag |-> "Scan", table_name |-> t, attributes |-> as]
OpProject(cols) == [tag |-> "Project", columns |-> cols]
OpFilter == [tag |-> "Filter"]

NoPanic == [msg |-> "", name |-> "", text |-> EmptyStr]
Panic(m, n, t) == [msg |-> m, name |-> n, text |-> t]
IndexPanic == Panic("index out of bounds", "", EmptyStr)

Ok(a) == [panicked |-> FALSE, panic |-> NoPanic, attr |-> a]
Abort(p, a) == [panicked |-> TRUE, panic |-> p, attr |-> a]

-----------------------------------------------------------------------------
(* parse_func, one arm per definition *)

\* variant: an unqualified side gets the empty table name of PROJECTION
JoinSide_EmptyTable(parts) ==
    IF Len(parts) = 1 THEN Attribute(EmptyStr, parts[1])
    ELSE Attribute(parts[1], parts[2])

\* lines 114-135: one side of a predicate, already split on '.' and trimmed
JoinSide(parts) ==
    IF Len(parts) = 1 THEN Attribute(parts[1], parts[1])
    ELSE Attribute(parts[1], parts[2])

\* lines 99-136: the body of the loop over the predicate lines
JoinCondition(pred) ==
    LET equalizer == TrimAll(Split(pred, EQUALS))
        left_attr == TrimAll(Split(equalizer[1], DOT))
        right_attr == TrimAll(Split(equalizer[2], DOT))
    IN  Condition(JoinSide(left_attr), JoinSide(right_attr))

\* equalizer[1] of line 104 is out of bounds when the line has no '='
PredInBounds(pred) == Len(Split(pred, EQUALS)) >= 2

\* variant: MARK is taken for a join type and a Join is stored
HashJoinArm_MarkStored(node) ==
    LET lines == NonEmpty(Split(node.extra_info, NEWLINE))
    IN  IF Len(lines) = 0 THEN Abort(IndexPanic, node.attr)
        ELSE IF lines[1] \in {INNER, MARK} THEN Ok(OpJoin("Inner", << >>))
        ELSE Abort(Panic("Fail to parse Join Type", "", lines[1]), node.attr)

\* lines 83-143
HashJoinArm(node) ==
    LET lines == NonEmpty(Split(node.extra_info, NEWLINE))
        preds == Tail1(lines)
    IN  IF Len(lines) = 0 THEN Abort(IndexPanic, node.attr)
        ELSE IF lines[1] = MARK THEN Ok(node.attr)
        ELSE IF lines[1] /= INNER
             THEN Abort(Panic("Fail to parse Join Type", "", lines[1]), node.attr)
        ELSE IF \E i \in 1..Len(preds) : ~PredInBounds(preds[i])
             THEN Abort(IndexPanic, node.attr)
        ELSE Ok(OpJoin("Inner", [i \in 1..Len(preds) |-> JoinCondition(preds[i])]))

\* variant: a text without the marker is read as a table with no columns
SeqScanArm_Lenient(node) ==
    LET parts == Split(node.extra_info, INFOSEPARATOR)
        table_name == Trim(parts[1])
        info_strs == IF Len(parts) < 2 THEN << >>
                     ELSE NonEmpty(Split(parts[2], NEWLINE))
    IN  Ok(OpScan(table_name,
                  [i \in 1..Len(info_strs) |-> Attribute(table_name, info_strs[i])]))

\* variant: a column written with a qualifier keeps that qualifier as its table
SeqScanArm_Qualified(node) ==
    LET parts == Split(node.extra_info, INFOSEPARATOR)
    IN  IF Len(parts) < 2 THEN Abort(IndexPanic, node.attr)
        ELSE LET table_name == Trim(parts[1])
                 info_strs == NonEmpty(Split(parts[2], NEWLINE))
                 TableOf(s) == IF Len(Split(s, DOT)) = 1 THEN table_name
                               ELSE Trim(Split(s, DOT)[1])
             IN  Ok(OpScan(table_name,
                           [i \in 1..Len(info_strs) |->
                               Attribute(TableOf(info_strs[i]), info_strs[i])]))

\* lines 144-162
SeqScanArm(node) ==
    LET parts == Split(node.extra_info, INFOSEPARATOR)
    IN  IF Len(parts) < 2 THEN Abort(IndexPanic, node.attr)
        ELSE LET table_name == Trim(parts[1])
                 info_strs == NonEmpty(Split(parts[2], NEWLINE))
             IN  Ok(OpScan(table_name,
                           [i \in 1..Len(info_strs) |->
                               Attribute(table_name, info_strs[i])]))

\* variant: an unqualified column is self-named as a HASH_JOIN side is
ProjectColumn_SelfNamed(s) ==
    LET names == TrimAll(Split(s, DOT))
    IN  IF Len(names) = 1 THEN Attribute(names[1], names[1])
        ELSE Attribute(names[1], names[2])

\* lines 168-183: one projected column
ProjectColumn(s) ==
    LET names == TrimAll(Split(s, DOT))
    IN  IF Len(names) = 1 THEN Attribute(EmptyStr, names[1])
        ELSE Attribute(names[1], names[2])

\* lines 163-186
ProjectionArm(node) ==
    LET lines == NonEmpty(Split(node.extra_info, NEWLINE))
    IN  Ok(OpProject([i \in 1..Len(lines) |-> ProjectColumn(lines[i])]))

PassThroughKinds == {"CHUNK_SCAN", "RESULT_COLLECTOR", "SIMPLE_AGGREGATE", "Query"}

\* variant: an unrecognized kind falls through like a pass-through kind
ParseFunc_UnknownIgnored(node) ==
    CASE node.name = "HASH_JOIN" -> HashJoinArm(node)
      [] node.name = "SEQ_SCAN" -> SeqScanArm(node)
      [] node.name = "PROJECTION" -> ProjectionArm(node)
      [] node.name = "FILTER" -> Ok(OpFilter)
      [] OTHER -> Ok(node.attr)

\* variant: the closure keeps state between calls, and only the first node
\* it is called on can become a Filter
ParseFunc_OrderDependent(node) ==
    CASE node.name = "HASH_JOIN" -> HashJoinArm(node)
      [] node.name = "SEQ_SCAN" -> SeqScanArm(node)
      [] node.name = "PROJECTION" -> ProjectionArm(node)
      [] node.name \in PassThroughKinds -> Ok(node.attr)
      [] node.name = "FILTER" -> IF Len(visited) = 0 THEN Ok(OpFilter) ELSE Ok(node.attr)
      [] OTHER -> Abort(Panic("Unknown node type", node.name, EmptyStr), node.attr)

\* lines 82-192: the match on node.name
ParseFunc(node) ==
    CASE node.name = "HASH_JOIN" -> HashJoinArm(node)
      [] node.name = "SEQ_SCAN" -> SeqScanArm(node)
      [] node.name = "PROJECTION" -> ProjectionArm(node)
      [] node.name \in PassThroughKinds -> Ok(node.attr)
      [] node.name = "FILTER" -> Ok(OpFilter)
      [] OTHER -> Abort(Panic("Unknown node type", node.name, EmptyStr), node.attr)

-----------------------------------------------------------------------------
(* Input trees.  serde_json builds an owned tree (line 76): every node but  *)
(* the root has exactly one parent.  Nodes are numbered so that a parent    *)
(* precedes its children and siblings are in index order; every ordered     *)
(* tree has such a numbering.                                               *)

Nodes == 1..nnodes

RECURSIVE SortedSeq(_)
SortedSeq(S) ==
    IF S = {} THEN << >>
    ELSE LET m == SetMin(S) IN <<m>> \o SortedSeq(S \ {m})

ParentMaps(n) == {p \in [2..n -> 1..n] : \A i \in 2..n : p[i] < i}
ChildrenOf(n, p) == [k \in 1..n |-> SortedSeq({i \in 2..n : p[i] = k})]

Str_orders == <<"o", "r", "d", "e", "r", "s">>
Str_id == <<"i", "d">>
Str_amount == <<"a", "m", "o", "u", "n", "t">>
Str_BOGUS == <<"B", "O", "G", "U", "S">>

\* "orders[INFOSEPARATOR]id\namount\n"
ScanExample == Str_orders \o INFOSEPARATOR \o Str_id \o NEWLINE \o Str_amount \o NEWLINE
\* "INNER\na.x=b.y\n"
JoinExample == INNER \o NEWLINE \o <<"a", ".", "x", "=", "b", ".", "y">> \o NEWLINE
\* "a.x\nid\n"
ProjectExample == <<"a", ".", "x">> \o NEWLINE \o Str_id \o NEWLINE

\* the (name, extra_info) pairs the nodes of the input trees are drawn from
Labels ==
    { [name |-> "FILTER", extra_info |-> EmptyStr],
      [name |-> "SEQ_SCAN", extra_info |-> ScanExample],
      [name |-> "WINDOW", extra_info |-> EmptyStr],
      [name |-> "hash_join", extra_info |-> JoinExample],
      [name |-> "HASH_JOIN", extra_info |-> Str_BOGUS \o NEWLINE] }

\* line 77: parse_tree_extra_info(&mut root) on a freshly deserialized tree,
\* about to call inorder_traverse_mut(root, ..) (line 193)
Frame(n, pc, i) == [node |-> n, pc |-> pc, i |-> i]

Init ==
    /\ nnodes \in 1..MaxNodes
    /\ \E p \in ParentMaps(nnodes) : children = ChildrenOf(nnodes, p)
    /\ \E l \in [1..nnodes -> Labels] :
          /\ name = [n \in 1..nnodes |-> l[n].name]
          /\ extra_info = [n \in 1..nnodes |-> l[n].extra_info]
    /\ attr = [n \in 1..nnodes |-> None]
    /\ stack = <<Frame(1, "first", 0)>>
    /\ status = "running"
    /\ panic = NoPanic
    /\ visited = << >>

-----------------------------------------------------------------------------
(* inorder_traverse_mut, one action per statement *)

Top == stack[Len(stack)]
Below == SubSeq(stack, 1, Len(stack) - 1)
NodeRec(n) == [name |-> name[n], extra_info |-> extra_info[n], attr |-> attr[n]]

\* variant: the recursion into the first child is left out
FirstChildCall_Skipped(frame) == <<Frame(frame.node, "self", 0)>>

\* variant: the recursion before func goes into the last child
FirstChildCall_Last(frame) ==
    IF Len(children[frame.node]) > 0
    THEN <<Frame(frame.node, "self", 0),
           Frame(children[frame.node][Len(children[frame.node])], "first", 0)>>
    ELSE <<Frame(frame.node, "self", 0)>>

\* lines 201-203: recurse into children[0] when there is one
FirstChildCall(frame) ==
    IF Len(children[frame.node]) > 0
    THEN <<Frame(frame.node, "self", 0), Frame(children[frame.node][1], "first", 0)>>
    ELSE <<Frame(frame.node, "self", 0)>>

TraverseFirst ==
    /\ status = "running"
    /\ Len(stack) > 0
    /\ Top.pc = "first"
    /\ stack' = Below \o FirstChildCall(Top)
    /\ UNCHANGED <<nnodes, children, name, extra_info, attr, status, panic, visited>>

\* line 206: the first index of &mut node.children[1..], counted from 1
RestStart == 2

\* line 204: func(node); a panic unwinds the whole call stack
CallFunc ==
    /\ status = "running"
    /\ Len(stack) > 0
    /\ Top.pc = "self"
    /\ LET n == Top.node
           r == ParseFunc(NodeRec(n))
       IN  /\ visited' = Append(visited, n)
           /\ attr' = [attr EXCEPT ![n] = r.attr]
           /\ IF r.panicked
              THEN /\ status' = "panicked"
                   /\ panic' = r.panic
                   /\ stack' = << >>
              ELSE /\ stack' = Below \o <<Frame(n, "rest", RestStart)>>
                   /\ UNCHANGED <<status, panic>>
    /\ UNCHANGED <<nnodes, children, name, extra_info>>

\* lines 205-208: the loop over node.children[1..], one recursive call per turn
TraverseRest ==
    /\ status = "running"
    /\ Len(stack) > 0
    /\ Top.pc = "rest"
    /\ Len(children[Top.node]) > 0
    /\ Top.i <= Len(children[Top.node])
    /\ stack' = Below \o <<Frame(Top.node, "rest", Top.i + 1),
                           Frame(children[Top.node][Top.i], "first", 0)>>
    /\ UNCHANGED <<nnodes, children, name, extra_info, attr, status, panic, visited>>

\* line 210: the call returns; the outermost return ends parse_tree_extra_info
Return ==
    /\ status = "running"
    /\ Len(stack) > 0
    /\ Top.pc = "rest"
    /\ ~(Len(children[Top.node]) > 0 /\ Top.i <= Len(children[Top.node]))
    /\ stack' = Below
    /\ status' = IF Len(stack) = 1 THEN "done" ELSE "running"
    /\ UNCHANGED <<nnodes, children, name, extra_info, attr, panic, visited>>

Next == TraverseFirst \/ CallFunc \/ TraverseRest \/ Return

Spec == Init /\ [][Next]_vars

-----------------------------------------------------------------------------
(* The pass on a single node, over a wide set of annotations.  The inputs   *)
(* are texts of up to MaxLines lines joined by '\n'; the lines cover the    *)
(* shapes the grammars distinguish.                                         *)

Line_space == <<" ">>
Line_ax_spaced == <<" ", "a", " ", ".", "x", " ">>                \* " a .x "
Line_eq == <<"a", ".", "x", "=", "b", ".", "y">>                    \* "a.x=b.y"
Line_eq_spaced == <<" ", "a", " ", "=", " ", "b", ".", "y">>      \* " a = b.y"
Line_eq_twice == <<"a", "=", "b", "=", "c">>                        \* "a=b=c"
Line_scan == <<"t", " ">> \o INFOSEPARATOR \o <<" ", "a", ".", "x", " ">>
                                                                    \* "t [INFOSEPARATOR] a.x "

LineSet ==
    { EmptyStr, Line_space, INNER, MARK, Str_id, Line_ax_spaced, Line_eq,
      Line_eq_spaced, Line_eq_twice, INFOSEPARATOR, Line_scan }

RECURSIVE JoinLines(_)
JoinLines(ls) ==
    IF Len(ls) = 0 THEN EmptyStr
    ELSE IF Len(ls) = 1 THEN ls[1]
    ELSE ls[1] \o NEWLINE \o JoinLines(Tail(ls))

TextsUpTo(k) == {JoinLines(ls) : ls \in UNION {[1..j -> LineSet] : j \in 0..k}}

Examples == {ScanExample, JoinExample, ProjectExample}

GrammarKinds == {"HASH_JOIN", "SEQ_SCAN", "PROJECTION"}
OtherKinds == PassThroughKinds \cup {"FILTER", "WINDOW", "hash_join", "QUERY"}

\* the annotation of a kind whose arm reads it ranges over all texts; for the
\* kinds whose arm ignores it, over the shorter texts
ParseInputs ==
    (GrammarKinds \X (TextsUpTo(MaxLines) \cup Examples))
        \cup (OtherKinds \X (TextsUpTo(MaxLines - 1) \cup Examples))

InitParse ==
    /\ nnodes = 1
    /\ children = [n \in {1} |-> << >>]
    /\ \E inp \in ParseInputs :
          /\ name = [n \in {1} |-> inp[1]]
          /\ extra_info = [n \in {1} |-> inp[2]]
    /\ attr = [n \in {1} |-> None]
    /\ stack = <<Frame(1, "first", 0)>>
    /\ status = "running"
    /\ panic = NoPanic
    /\ visited = << >>

\* lines 81-195 on a tree that is a single leaf: lines 201 and 205 find no
\* children, so the call is func(root) and the return
ParseNode ==
    /\ status = "running"
    /\ stack = <<Frame(1, "first", 0)>>
    /\ children[1] = << >>
    /\ LET r == ParseFunc(NodeRec(1))
       IN  /\ visited' = Append(visited, 1)
           /\ attr' = [attr EXCEPT ![1] = r.attr]
           /\ status' = IF r.panicked THEN "panicked" ELSE "done"
           /\ panic' = r.panic
           /\ stack' = << >>
    /\ UNCHANGED <<nnodes, children, name, extra_info>>

NextParse == ParseNode

SpecParse == InitParse /\ [][NextParse]_vars

-----------------------------------------------------------------------------
(* Properties of the traversal (specification Spec) *)

Terminated == status \in {"done", "panicked"}
VisitCount(n) == Cardinality({i \in 1..Len(visited) : visited[i] = n})
IsPrefix(a, b) == Len(a) <= Len(b) /\ SubSeq(b, 1, Len(a)) = a

RECURSIVE Concat(_)
Concat(ss) == IF Len(ss) = 0 THEN << >> ELSE ss[1] \o Concat(Tail(ss))

\* C1: when the pass completes, func has been called on every node of the
\* tree exactly once (as many calls as nodes); at no time has a node been
\* visited twice.
C1_EveryNodeVisitedOnce ==
    /\ \A n \in Nodes : VisitCount(n) <= 1
    /\ status = "done" =>
          /\ Len(visited) = nnodes
          /\ \A n \in Nodes : VisitCount(n) = 1

\* a completed pass over a tree with a node of several children and an inner
\* node below the root
C1_Witness ==
    /\ status = "done"
    /\ \E n \in Nodes : Len(children[n]) >= 2
    /\ \E n \in Nodes \ {1} : Len(children[n]) >= 1

\* the order the claim describes: the first child's subtree, the node, then
\* the subtrees of the 2nd..nth children from left to right
RECURSIVE ClaimedOrder(_)
ClaimedOrder(n) ==
    LET cs == children[n]
    IN  IF Len(cs) = 0 THEN <<n>>
        ELSE ClaimedOrder(cs[1]) \o <<n>>
             \o Concat([k \in 1..(Len(cs) - 1) |-> ClaimedOrder(cs[k + 1])])

WouldPanic(n) == ParseFunc(NodeRec(n)).panicked
PositionIn(seq, n) == CHOOSE i \in 1..Len(seq) : seq[i] = n

\* C9: nodes are enriched in first-child / self / remaining-children order;
\* the pass aborts at the first node in that order that causes a fatal
\* error, and the nodes after it are neither visited nor modified.
C9_VisitOrder ==
    LET order == ClaimedOrder(1)
    IN  /\ IsPrefix(visited, order)
        /\ status = "done" => visited = order
        /\ status = "panicked" =>
              /\ Len(visited) >= 1
              /\ WouldPanic(visited[Len(visited)])
              /\ \A i \in 1..(Len(visited) - 1) : ~WouldPanic(visited[i])
              /\ \A i \in (Len(visited) + 1)..Len(order) : attr[order[i]] = None

\* the pass aborted at the first of two failing nodes, after enriching a
\* node; the second failing node was never reached
C9_Witness ==
    /\ status = "panicked"
    /\ Len(visited) >= 2
    /\ attr[visited[1]] /= None
    /\ \E n \in Nodes : WouldPanic(n) /\ VisitCount(n) = 0
    /\ \E n \in Nodes : Len(children[n]) >= 3

Recognized ==
    {"HASH_JOIN", "SEQ_SCAN", "PROJECTION", "CHUNK_SCAN", "RESULT_COLLECTOR",
     "SIMPLE_AGGREGATE", "Query", "FILTER"}
UnknownKindPanic(n) == Panic("Unknown node type", name[n], EmptyStr)

\* C2 as stated: a node of an unrecognized kind anywhere in the tree makes
\* the pass end in a fatal error naming that node's kind.
C2_Original ==
    \A n \in Nodes :
        name[n] \notin Recognized =>
            /\ status /= "done"
            /\ status = "panicked" => panic = UnknownKindPanic(n)

\* C2 (amended): a node of an unrecognized kind (the match is exact and
\* case-sensitive) anywhere in the tree keeps the pass from completing
\* normally: the pass is still under way or has aborted, and when it reaches that node
\* it aborts there with a fatal error naming that kind, whatever the node's
\* extra_info; a node that fails earlier in the order ends the pass with its
\* own error instead.
C2_UnknownKindIsFatal ==
    \A n \in Nodes :
        name[n] \notin Recognized =>
            /\ status /= "done"
            /\ status = "running" => Len(stack) > 0
            /\ VisitCount(n) > 0 =>
                  /\ status = "panicked"
                  /\ panic = UnknownKindPanic(n)
                  /\ visited[Len(visited)] = n

\* the pass aborted at a node of an unrecognized kind whose extra_info is not
\* empty, after visiting other nodes
C2_Witness ==
    /\ status = "panicked"
    /\ Len(visited) >= 2
    /\ LET n == visited[Len(visited)]
       IN  /\ name[n] \notin Recognized
           /\ extra_info[n] /= EmptyStr
           /\ panic = UnknownKindPanic(n)

\* what func does to a node of each label when the node is as deserialized
FreshTable ==
    {<<l, ParseFunc([name |-> l.name, extra_info |-> l.extra_info, attr |-> None])>> :
        l \in Labels}
FreshOutcomeOf(l) == (CHOOSE p \in FreshTable : p[1] = l)[2]
LabelOf(n) == [name |-> name[n], extra_info |-> extra_info[n]]

\* the outcome of calling func on the nodes in the order ord, each node once,
\* from the tree as deserialized
RECURSIVE RunFrom(_, _, _)
RunFrom(ord, i, a) ==
    IF i > Len(ord) THEN [status |-> "done", panic |-> NoPanic, attr |-> a]
    ELSE LET n == ord[i]
             r == FreshOutcomeOf(LabelOf(n))
         IN  IF r.panicked
             THEN [status |-> "panicked", panic |-> r.panic, attr |-> a]
             ELSE RunFrom(ord, i + 1, [a EXCEPT ![n] = r.attr])

\* every order that visits each node exactly once
RECURSIVE OrdersOf(_)
OrdersOf(S) ==
    IF S = {} THEN {<< >>}
    ELSE UNION {{<<n>> \o ord : ord \in OrdersOf(S \ {n})} : n \in S}
OrdersTable == {<<k, OrdersOf(1..k)>> : k \in 1..MaxNodes}
VisitOrders == (CHOOSE p \in OrdersTable : p[1] = nnodes)[2]
OutcomeOf(ord) == RunFrom(ord, 1, [n \in Nodes |-> None])

\* C10 as stated: every traversal that visits each node once ends as the
\* implemented one does: the same operators when the pass completes, the
\* same fatal error when it aborts.
C10_Original ==
    Terminated =>
        \A ord \in VisitOrders :
            LET o == OutcomeOf(ord)
            IN  /\ o.status = status
                /\ o.panic = panic
                /\ status = "done" => o.attr = attr

\* C10 (amended): what func stores on a node depends only on that node's
\* name and extra_info; every traversal that visits each node once completes
\* on exactly the trees the implemented one completes on, with the same
\* operator on every node, and aborts on exactly the trees it aborts on.
\* The fatal error is that of the first failing node in the traversal's own
\* order, so with several failing nodes it may differ between traversals.
C10_OrderIndependence ==
    /\ \A n \in Nodes :
          (VisitCount(n) > 0 /\ ~(status = "panicked" /\ visited[Len(visited)] = n)) =>
              attr[n] = FreshOutcomeOf(LabelOf(n)).attr
    /\ Terminated =>
          LET failing == {n \in Nodes : FreshOutcomeOf(LabelOf(n)).panicked}
          IN  \A ord \in VisitOrders :
                  LET o == OutcomeOf(ord)
                  IN  /\ o.status = status
                      /\ status = "done" => o.attr = attr
                      /\ status = "panicked" =>
                            LET i == SetMin({j \in 1..nnodes : ord[j] \in failing})
                            IN  o.panic = FreshOutcomeOf(LabelOf(ord[i])).panic

\* a completed pass that stored operators on a tree where pre-order,
\* post-order and the implemented order all differ
C10_Witness ==
    /\ status = "done"
    /\ nnodes >= 3
    /\ Len(children[1]) >= 2
    /\ \E n, m \in Nodes : attr[n].tag = "Scan" /\ attr[m].tag = "Filter"

-----------------------------------------------------------------------------
(* Properties of the per-kind grammars (specification SpecParse, the single *)
(* node is node 1).  The claims' readings of a text are defined here from   *)
(* character positions, apart from the arms above.                          *)

Positions(s, c) == {i \in 1..Len(s) : s[i] = c}
Has(s, c) == Positions(s, c) /= {}
\* the text before the first c (all of s when there is none)
Before(s, c) == IF Has(s, c) THEN SubSeq(s, 1, SetMin(Positions(s, c)) - 1) ELSE s
\* the text after the first c
After(s, c) == SubSeq(s, SetMin(Positions(s, c)) + 1, Len(s))

MarkerAt(s) ==
    {i \in 1..(Len(s) - Len(INFOSEPARATOR) + 1) :
        SubSeq(s, i, i + Len(INFOSEPARATOR) - 1) = INFOSEPARATOR}
MarkerCount(s) == Cardinality(MarkerAt(s))
BeforeMarker(s) == SubSeq(s, 1, SetMin(MarkerAt(s)) - 1)
AfterMarker(s) == SubSeq(s, SetMin(MarkerAt(s)) + Len(INFOSEPARATOR), Len(s))

\* the non-empty lines of a text
LinesOf(s) == NonEmpty(Split(s, NEWLINE))
Info == extra_info[1]
InfoLines == LinesOf(Info)
PredLines == Tail1(InfoLines)

BadJoinType == name[1] = "HASH_JOIN" /\ (InfoLines = << >> \/ InfoLines[1] \notin {INNER, MARK})
InnerJoin == name[1] = "HASH_JOIN" /\ InfoLines /= << >> /\ InfoLines[1] = INNER
MarkJoin == name[1] = "HASH_JOIN" /\ InfoLines /= << >> /\ InfoLines[1] = MARK
PredWithoutEquals == InnerJoin /\ \E i \in 1..Len(PredLines) : ~Has(PredLines[i], "=")
Aborted == status = "panicked" /\ attr[1] = None

ScanOfFirstTwoParts(s) ==
    LET table == Trim(BeforeMarker(s))
        rest == AfterMarker(s)
        part1 == IF MarkerCount(rest) = 0 THEN rest ELSE BeforeMarker(rest)
        cols == LinesOf(part1)
    IN  OpScan(table, [i \in 1..Len(cols) |-> Attribute(table, cols[i])])

AllPredsHaveEquals == \A i \in 1..Len(PredLines) : Has(PredLines[i], "=")

\* a side as the claim reads it: no '.' gives the self-named placeholder,
\* 'T.A' gives table T and attribute A
SideAttribute(side) ==
    IF ~Has(side, ".") THEN Attribute(side, side)
    ELSE Attribute(Trim(Before(side, ".")), Trim(Before(After(side, "."), ".")))

\* a predicate line split once on '=': the right side is all that follows
\* the first '='
ConditionSplitOnce(pred) ==
    Condition(SideAttribute(Trim(Before(pred, "="))),
              SideAttribute(Trim(After(pred, "="))))

\* a predicate line split on every '=': the right side ends at the second '='
ConditionFirstTwoPieces(pred) ==
    Condition(SideAttribute(Trim(Before(pred, "="))),
              SideAttribute(Trim(Before(After(pred, "="), "="))))

JoinExampleResult ==
    OpJoin("Inner", <<Condition(Attribute(<<"a">>, <<"x">>), Attribute(<<"b">>, <<"y">>))>>)

C5_OperatorFollowsKind ==
    /\ status = "done" =>
          /\ InnerJoin => attr[1].tag = "Join"
          /\ MarkJoin => attr[1] = None
          /\ name[1] = "SEQ_SCAN" => attr[1].tag = "Scan"
          /\ name[1] = "PROJECTION" => attr[1].tag = "Project"
          /\ name[1] = "FILTER" => attr[1] = OpFilter
          /\ name[1] \in {"CHUNK_SCAN", "RESULT_COLLECTOR", "SIMPLE_AGGREGATE", "Query"}
                => attr[1] = None
          /\ attr[1].tag = "Join" => name[1] = "HASH_JOIN"
          /\ attr[1].tag = "Scan" => name[1] = "SEQ_SCAN"
          /\ attr[1].tag = "Project" => name[1] = "PROJECTION"
          /\ attr[1].tag = "Filter" => name[1] = "FILTER"
    /\ (Terminated /\ (\/ MarkJoin
                       \/ name[1] \in {"FILTER", "CHUNK_SCAN", "RESULT_COLLECTOR",
                                       "SIMPLE_AGGREGATE", "Query"}))
          => status = "done"

\* a MARK join followed by a line that is no predicate completed and was
\* left empty
C5_Witness ==
    /\ status = "done"
    /\ MarkJoin
    /\ Len(PredLines) >= 1
    /\ ~Has(PredLines[1], "=")
    /\ attr[1] = None

\* C6: every attribute of a stored Scan carries the Scan's own table name,
\* whether or not the column text was written with a table qualifier.
C6_ScanAttributesQualified ==
    attr[1].tag = "Scan" =>
        \A i \in 1..Len(attr[1].attributes) :
            attr[1].attributes[i].table_name = attr[1].table_name

\* a Scan was stored from a column text that carries a qualifier of its own
C6_Witness ==
    /\ status = "done"
    /\ attr[1].tag = "Scan"
    /\ Len(attr[1].attributes) >= 2
    /\ \E i \in 1..Len(attr[1].attributes) : Has(attr[1].attributes[i].attr_name, ".")

\* the lines of a text that are not blank, each trimmed
TrimmedNonBlankLines(s) ==
    LET ls == SelectSeq(Split(s, NEWLINE), LAMBDA l : Trim(l) /= EmptyStr)
    IN  [i \in 1..Len(ls) |-> Trim(ls[i])]

ScanExampleResult ==
    OpScan(Str_orders, <<Attribute(Str_orders, Str_id), Attribute(Str_orders, Str_amount)>>)

\* C7: a SEQ_SCAN whose extra_info holds exactly one "[INFOSEPARATOR]" stores
\* Scan{table_name, attributes}: table_name is part 0 trimmed, and there is
\* one attribute per non-blank line of part 1, in line order, its attr_name
\* the line trimmed (a whitespace-only line yields no attribute).
\* "orders[INFOSEPARATOR]id\namount\n" yields
\* Scan{orders, [Attribute{orders,id}, Attribute{orders,amount}]}.
C7_ScanParsedTrimmed ==
    /\ (Terminated /\ name[1] = "SEQ_SCAN" /\ MarkerCount(Info) = 1) =>
          LET table == Trim(BeforeMarker(Info))
              cols == TrimmedNonBlankLines(AfterMarker(Info))
          IN  /\ status = "done"
              /\ attr[1] = OpScan(table, [i \in 1..Len(cols) |-> Attribute(table, cols[i])])
    /\ (Terminated /\ name[1] = "SEQ_SCAN" /\ Info = ScanExample) =>
          attr[1] = ScanExampleResult

ProjectExampleResult ==
    OpProject(<<Attribute(<<"a">>, <<"x">>), Attribute(EmptyStr, Str_id)>>)

====
